---- MODULE Spec2Model ----
(***************************************************************************)
(* Model of actividad3.py: the Factory Method incident system.            *)
(* Incident variants, their creators, the manager (GestorIncidencias)     *)
(* and the operations a caller can invoke on them.  The system clock      *)
(* read by datetime.now() and the standard output written by print() are  *)
(* part of the state.                                                      *)
(***************************************************************************)
EXTENDS Integers, Sequences, FiniteSets, TLC

(* ---------------------------------------------------------------- bounds *)

\* Largest number of incidents constructed in one behaviour; the constructing
\* operations (a failing call of the manager included) are called only while
\* fewer exist.
MaxIncidencias == 2

\* Largest reading of the system clock, in ticks.
MaxReloj == 2

\* Clock ticks per second: strftime('%Y-%m-%d %H:%M:%S') drops what is below
\* one second.
TicksPorSegundo == 2

(* ---------------------------------------------------------------- inputs *)

\* The (titulo, descripcion, usuario_id) arguments a caller passes: ordinary
\* ones for two users, an empty title, an empty description, both empty.
Argumentos ==
  {<<"Falla en impresora", "No responde", 1>>,
   <<"Falla en impresora", "No responde", 2>>,
   <<"", "No responde", 1>>,
   <<"Falla en impresora", "", 2>>,
   <<"", "", 1>>}

(* ---------------------------------------------------------- enumerations *)

\* Members of the three enumerations, by member name.
TipoIncidencia == {"HARDWARE", "SOFTWARE", "RED", "SEGURIDAD"}

Prioridad == {"BAJA", "MEDIA", "ALTA", "CRITICA"}

Estado == {"ABIERTA", "EN_PROGRESO", "CERRADA"}

\* Enum.value: the string a member carries.
value(m) ==
  CASE m = "HARDWARE" -> "hardware"
    [] m = "SOFTWARE" -> "software"
    [] m = "RED" -> "red"
    [] m = "SEGURIDAD" -> "seguridad"
    [] m = "BAJA" -> "baja"
    [] m = "MEDIA" -> "media"
    [] m = "ALTA" -> "alta"
    [] m = "CRITICA" -> "critica"
    [] m = "ABIERTA" -> "abierta"
    [] m = "EN_PROGRESO" -> "en_progreso"
    [] m = "CERRADA" -> "cerrada"

\* Objects a caller can pass as `tipo` that are no member of TipoIncidencia
\* (hashable ones, as a dict key must be): the plain string "hardware" and None.
NoMiembros == {"hardware", "None"}

TiposEntrada == TipoIncidencia \cup NoMiembros

Creadores ==
  {"CreadorIncidenciaHardware", "CreadorIncidenciaSoftware",
   "CreadorIncidenciaRed", "CreadorIncidenciaSeguridad"}

(* ------------------------------------------------------------------ state *)

VARIABLES
  factories,         \* GestorIncidencias._factories: ordered <<tipo, creador>> pairs
  incidencias,       \* every Incidencia object constructed so far, in order
  salida,            \* the lines print() has written from procesar_incidencia
  reloj,             \* the system clock datetime.now() reads
  reloj_retrocedio,  \* history: the system clock has been set back
  llamada,           \* the last operation called, with its arguments
  resultado,         \* what that operation returned or raised
  primera_vista      \* history: the first obtener_informacion() call of the
                     \* behaviour (the incident's index and the mapping it
                     \* returned) and whether that incident was asked again

vars ==
  <<factories, incidencias, salida, reloj, reloj_retrocedio, llamada,
    resultado, primera_vista>>

(* ------------------------------------------------------ incident variants *)

\* Mutant of Incidencia_init: the title is stored from the wrong argument
\* (self.titulo = descripcion).
Incidencia_init_titulo_cruzado(titulo, descripcion, usuario_id, ahora) ==
  [titulo |-> descripcion,
   descripcion |-> descripcion,
   usuario_id |-> usuario_id,
   estado |-> "ABIERTA",
   creado_en |-> ahora,
   prioridad |-> "MEDIA"]

\* Mutant of Incidencia_init: the timestamp is a default evaluated once, when
\* the class is defined, not at each construction.
Incidencia_init_creado_fijo(titulo, descripcion, usuario_id, ahora) ==
  [titulo |-> titulo,
   descripcion |-> descripcion,
   usuario_id |-> usuario_id,
   estado |-> "ABIERTA",
   creado_en |-> 0,
   prioridad |-> "MEDIA"]

\* Incidencia.__init__: the fields of the base class; `ahora` is datetime.now().
Incidencia_init(titulo, descripcion, usuario_id, ahora) ==
  [titulo |-> titulo,
   descripcion |-> descripcion,
   usuario_id |-> usuario_id,
   estado |-> "ABIERTA",
   creado_en |-> ahora,
   prioridad |-> "MEDIA"]

\* Mutant of IncidenciaHardware_init: the priority override is missing, so the
\* base class's MEDIA stays.
IncidenciaHardware_init_sin_prioridad(titulo, descripcion, usuario_id, ahora) ==
  [clase |-> "IncidenciaHardware", tipo |-> "HARDWARE"]
    @@ Incidencia_init(titulo, descripcion, usuario_id, ahora)

\* Each subclass __init__ runs the base __init__, then sets tipo and
\* overwrites prioridad (the left operand of @@ wins).
IncidenciaHardware_init(titulo, descripcion, usuario_id, ahora) ==
  [clase |-> "IncidenciaHardware", tipo |-> "HARDWARE", prioridad |-> "ALTA"]
    @@ Incidencia_init(titulo, descripcion, usuario_id, ahora)

IncidenciaSoftware_init(titulo, descripcion, usuario_id, ahora) ==
  [clase |-> "IncidenciaSoftware", tipo |-> "SOFTWARE", prioridad |-> "MEDIA"]
    @@ Incidencia_init(titulo, descripcion, usuario_id, ahora)

IncidenciaRed_init(titulo, descripcion, usuario_id, ahora) ==
  [clase |-> "IncidenciaRed", tipo |-> "RED", prioridad |-> "CRITICA"]
    @@ Incidencia_init(titulo, descripcion, usuario_id, ahora)

IncidenciaSeguridad_init(titulo, descripcion, usuario_id, ahora) ==
  [clase |-> "IncidenciaSeguridad", tipo |-> "SEGURIDAD", prioridad |-> "CRITICA"]
    @@ Incidencia_init(titulo, descripcion, usuario_id, ahora)

\* calcular_tiempo_estimado, dispatched on the object's class.
calcular_tiempo_estimado(inc) ==
  CASE inc.clase = "IncidenciaHardware" -> 4
    [] inc.clase = "IncidenciaSoftware" -> 2
    [] inc.clase = "IncidenciaRed" -> 3
    [] inc.clase = "IncidenciaSeguridad" -> 6

\* Mutant of obtener_tecnico_especializado: IncidenciaRed returns the label
\* copied from IncidenciaHardware.
obtener_tecnico_especializado_copiado(inc) ==
  CASE inc.clase = "IncidenciaHardware" -> "Técnico de Hardware"
    [] inc.clase = "IncidenciaSoftware" -> "Desarrollador/Técnico de Software"
    [] inc.clase = "IncidenciaRed" -> "Técnico de Hardware"
    [] inc.clase = "IncidenciaSeguridad" -> "Especialista en Seguridad"

\* obtener_tecnico_especializado, dispatched on the object's class.
obtener_tecnico_especializado(inc) ==
  CASE inc.clase = "IncidenciaHardware" -> "Técnico de Hardware"
    [] inc.clase = "IncidenciaSoftware" -> "Desarrollador/Técnico de Software"
    [] inc.clase = "IncidenciaRed" -> "Administrador de Redes"
    [] inc.clase = "IncidenciaSeguridad" -> "Especialista en Seguridad"

\* datetime.strftime('%Y-%m-%d %H:%M:%S'): the time to the second, the rest
\* dropped.  The formatted text is represented by the whole second it names.
strftime(t) == t \div TicksPorSegundo

\* Mutant of obtener_informacion: the timestamp is read from the clock at the
\* call (datetime.now().strftime) and not from self.creado_en.
obtener_informacion_ahora(inc) ==
  [titulo |-> inc.titulo,
   descripcion |-> inc.descripcion,
   estado |-> value(inc.estado),
   prioridad |-> value(inc.prioridad),
   creado_en |-> strftime(reloj),
   tiempo_estimado |-> calcular_tiempo_estimado(inc),
   tecnico_especializado |-> obtener_tecnico_especializado(inc)]

\* Incidencia.obtener_informacion: the summary mapping.
obtener_informacion(inc) ==
  [titulo |-> inc.titulo,
   descripcion |-> inc.descripcion,
   estado |-> value(inc.estado),
   prioridad |-> value(inc.prioridad),
   creado_en |-> strftime(inc.creado_en),
   tiempo_estimado |-> calcular_tiempo_estimado(inc),
   tecnico_especializado |-> obtener_tecnico_especializado(inc)]

(* --------------------------------------------------------------- creators *)

\* The four concrete crear_incidencia methods.
CreadorIncidenciaHardware_crear(titulo, descripcion, usuario_id, ahora) ==
  IncidenciaHardware_init(titulo, descripcion, usuario_id, ahora)

CreadorIncidenciaSoftware_crear(titulo, descripcion, usuario_id, ahora) ==
  IncidenciaSoftware_init(titulo, descripcion, usuario_id, ahora)

\* Mutant of CreadorIncidenciaRed_crear: it constructs the security variant.
CreadorIncidenciaRed_crear_seguridad(titulo, descripcion, usuario_id, ahora) ==
  IncidenciaSeguridad_init(titulo, descripcion, usuario_id, ahora)

CreadorIncidenciaRed_crear(titulo, descripcion, usuario_id, ahora) ==
  IncidenciaRed_init(titulo, descripcion, usuario_id, ahora)

CreadorIncidenciaSeguridad_crear(titulo, descripcion, usuario_id, ahora) ==
  IncidenciaSeguridad_init(titulo, descripcion, usuario_id, ahora)

\* creador.crear_incidencia(...), dispatched on the creator's class.
Creador_crear_incidencia(creador, titulo, descripcion, usuario_id, ahora) ==
  CASE creador = "CreadorIncidenciaHardware" ->
         CreadorIncidenciaHardware_crear(titulo, descripcion, usuario_id, ahora)
    [] creador = "CreadorIncidenciaSoftware" ->
         CreadorIncidenciaSoftware_crear(titulo, descripcion, usuario_id, ahora)
    [] creador = "CreadorIncidenciaRed" ->
         CreadorIncidenciaRed_crear(titulo, descripcion, usuario_id, ahora)
    [] creador = "CreadorIncidenciaSeguridad" ->
         CreadorIncidenciaSeguridad_crear(titulo, descripcion, usuario_id, ahora)

\* str() of the estimated hours, as the f-string formats it.
str(n) == ToString(n)

\* Mutant of lineas_procesar: the technician line is printed after the hours.
lineas_procesar_desordenadas(inc) ==
  << <<"Procesando incidencia: ", inc.titulo>>,
     <<"Tiempo estimado: ", str(calcular_tiempo_estimado(inc)), " horas">>,
     <<"Asignando a: ", obtener_tecnico_especializado(inc)>> >>

\* The three print() calls of procesar_incidencia, in program order.
lineas_procesar(inc) ==
  << <<"Procesando incidencia: ", inc.titulo>>,
     <<"Asignando a: ", obtener_tecnico_especializado(inc)>>,
     <<"Tiempo estimado: ", str(calcular_tiempo_estimado(inc)), " horas">> >>

(* ---------------------------------------------------------------- manager *)

\* GestorIncidencias.__init__: the dict literal, in insertion order.
GestorIncidencias_init ==
  << <<"HARDWARE", "CreadorIncidenciaHardware">>,
     <<"SOFTWARE", "CreadorIncidenciaSoftware">>,
     <<"RED", "CreadorIncidenciaRed">>,
     <<"SEGURIDAD", "CreadorIncidenciaSeguridad">> >>

\* dict.keys(): the keys in insertion order.
keys(d) == [i \in 1..Len(d) |-> d[i][1]]

\* `tipo in self._factories`.
contiene(d, tipo) == \E i \in 1..Len(d) : d[i][1] = tipo

\* `self._factories[tipo]` for a key that is present.
buscar(d, tipo) == d[CHOOSE i \in 1..Len(d) : d[i][1] = tipo][2]

\* Mutant of obtener_tipos_disponibles: the member names, not their values.
obtener_tipos_disponibles_nombres(d) == keys(d)

\* GestorIncidencias.obtener_tipos_disponibles.
obtener_tipos_disponibles(d) == [i \in 1..Len(d) |-> value(keys(d)[i])]

(* -------------------------------------------------- calls and their results *)

Llamada(op, objeto, titulo, descripcion, usuario_id, indice) ==
  [op |-> op, objeto |-> objeto, titulo |-> titulo, descripcion |-> descripcion,
   usuario_id |-> usuario_id, indice |-> indice]

\* A result: the exception raised (<<>> when none), the Incidencia object
\* returned (its index, 0 when none), the mapping returned (<<>> when none),
\* the list returned (<<>> when none).
Resultado(error, ref, info, tipos) ==
  [error |-> error, ref |-> ref, info |-> info, tipos |-> tipos]

Init ==
  /\ factories = GestorIncidencias_init
  /\ incidencias = <<>>
  /\ salida = <<>>
  /\ reloj \in 0..MaxReloj
  /\ reloj_retrocedio = FALSE
  /\ llamada = Llamada("GestorIncidencias", "", "", "", 0, 0)
  /\ resultado = Resultado(<<>>, 0, <<>>, <<>>)
  /\ primera_vista = [indice |-> 0, info |-> <<>>, veces |-> 0]

(* ------------------------------------------------------------- operations *)

\* Mutant of procesar_incidencia: the incident is marked EN_PROGRESO once it
\* has been assigned.
procesar_incidencia_en_progreso(creador, titulo, descripcion, usuario_id) ==
  LET incidencia ==
        [Creador_crear_incidencia(creador, titulo, descripcion, usuario_id, reloj)
           EXCEPT !.estado = "EN_PROGRESO"]
  IN /\ incidencias' = Append(incidencias, incidencia)
     /\ salida' = salida \o lineas_procesar(incidencia)
     /\ resultado' = Resultado(<<>>, 0, <<obtener_informacion(incidencia)>>, <<>>)

\* CreadorIncidencias.procesar_incidencia: create, print three lines, return
\* the summary of the created incident.
procesar_incidencia(creador, titulo, descripcion, usuario_id) ==
  LET incidencia ==
        Creador_crear_incidencia(creador, titulo, descripcion, usuario_id, reloj)
  IN /\ incidencias' = Append(incidencias, incidencia)
     /\ salida' = salida \o lineas_procesar(incidencia)
     /\ resultado' = Resultado(<<>>, 0, <<obtener_informacion(incidencia)>>, <<>>)

\* Mutant of Gestor_crear_incidencia: no membership test; an unknown tipo
\* falls back to the software creator (self._factories.get(tipo, default)).
Gestor_crear_incidencia_por_defecto(tipo, titulo, descripcion, usuario_id) ==
  procesar_incidencia(
    IF contiene(factories, tipo) THEN buscar(factories, tipo)
                                 ELSE "CreadorIncidenciaSoftware",
    titulo, descripcion, usuario_id)

\* GestorIncidencias.crear_incidencia.
Gestor_crear_incidencia(tipo, titulo, descripcion, usuario_id) ==
  IF ~contiene(factories, tipo)
  THEN /\ resultado' =
            Resultado(<<"ValueError", "Tipo de incidencia no soportado: ", tipo>>,
                      0, <<>>, <<>>)
       /\ UNCHANGED <<incidencias, salida>>
  ELSE procesar_incidencia(buscar(factories, tipo), titulo, descripcion, usuario_id)

\* A caller constructs an incident through a creator's crear_incidencia.
LlamarCrear ==
  \E creador \in Creadores, a \in Argumentos :
   LET titulo == a[1]
       descripcion == a[2]
       usuario_id == a[3]
   IN
    /\ Len(incidencias) < MaxIncidencias
    /\ llamada' = Llamada("crear_incidencia", creador, titulo, descripcion, usuario_id, 0)
    /\ incidencias' =
         Append(incidencias,
                Creador_crear_incidencia(creador, titulo, descripcion, usuario_id, reloj))
    /\ UNCHANGED primera_vista
    /\ resultado' = Resultado(<<>>, Len(incidencias) + 1, <<>>, <<>>)
    /\ UNCHANGED <<factories, salida, reloj, reloj_retrocedio>>

\* A caller invokes a creator's procesar_incidencia.
LlamarProcesar ==
  \E creador \in Creadores, a \in Argumentos :
   LET titulo == a[1]
       descripcion == a[2]
       usuario_id == a[3]
   IN
    /\ Len(incidencias) < MaxIncidencias
    /\ llamada' = Llamada("procesar_incidencia", creador, titulo, descripcion, usuario_id, 0)
    /\ procesar_incidencia(creador, titulo, descripcion, usuario_id)
    /\ UNCHANGED <<factories, reloj, reloj_retrocedio, primera_vista>>

\* A caller invokes the manager's crear_incidencia.
LlamarGestorCrear ==
  \E tipo \in TiposEntrada, a \in Argumentos :
   LET titulo == a[1]
       descripcion == a[2]
       usuario_id == a[3]
   IN
    /\ Len(incidencias) < MaxIncidencias
    /\ llamada' = Llamada("gestor.crear_incidencia", tipo, titulo, descripcion, usuario_id, 0)
    /\ Gestor_crear_incidencia(tipo, titulo, descripcion, usuario_id)
    /\ UNCHANGED <<factories, reloj, reloj_retrocedio, primera_vista>>

\* A caller invokes the manager's obtener_tipos_disponibles.
LlamarTiposDisponibles ==
  /\ llamada' = Llamada("obtener_tipos_disponibles", "", "", "", 0, 0)
  /\ resultado' = Resultado(<<>>, 0, <<>>, obtener_tipos_disponibles(factories))
  /\ UNCHANGED <<factories, incidencias, primera_vista, salida, reloj, reloj_retrocedio>>

\* A caller invokes obtener_informacion on an incident constructed earlier.
LlamarInformacion ==
  \E i \in 1..Len(incidencias) :
    /\ llamada' = Llamada("obtener_informacion", "", "", "", 0, i)
    /\ resultado' = Resultado(<<>>, 0, <<obtener_informacion(incidencias[i])>>, <<>>)
    /\ primera_vista' =
         IF primera_vista.indice = 0
         THEN [indice |-> i, info |-> <<obtener_informacion(incidencias[i])>>,
               veces |-> 1]
         ELSE IF primera_vista.indice = i
              THEN [primera_vista EXCEPT !.veces = 2]
              ELSE primera_vista
    /\ UNCHANGED <<factories, incidencias, salida, reloj, reloj_retrocedio>>

\* The system clock moves forward.
AvanzarReloj ==
  /\ reloj < MaxReloj
  /\ reloj' = reloj + 1
  /\ UNCHANGED <<factories, incidencias, salida, reloj_retrocedio, llamada,
                 resultado, primera_vista>>

\* The system clock is set back (a clock adjustment, the end of daylight
\* saving time): datetime.now() is the local wall clock.
RetrocederReloj ==
  /\ \E t \in 0..(reloj - 1) : reloj' = t
  /\ reloj_retrocedio' = TRUE
  /\ UNCHANGED <<factories, incidencias, salida, llamada, resultado, primera_vista>>

Next ==
  \/ LlamarCrear
  \/ LlamarProcesar
  \/ LlamarGestorCrear
  \/ LlamarTiposDisponibles
  \/ LlamarInformacion
  \/ AvanzarReloj
  \/ RetrocederReloj

Spec == Init /\ [][Next]_vars

(* ------------------------------------------------------------ properties *)

\* The incident constructed last.
Ultima == incidencias[Len(incidencias)]

\* The keys of the manager's table, as a set.
ClavesRegistradas == {factories[i][1] : i \in 1..Len(factories)}

\* The last call was one that constructs an incident: a creator's
\* crear_incidencia or procesar_incidencia, or the manager's crear_incidencia
\* with a registered tipo.
LlamadaCreadora ==
  \/ llamada.op \in {"crear_incidencia", "procesar_incidencia"}
  \/ llamada.op = "gestor.crear_incidencia" /\ llamada.objeto \in TipoIncidencia

\* This step is a call of `op` (a call leaves the clock alone; a clock step
\* leaves the call record alone).
PasoLlamada(op) == llamada'.op = op /\ reloj' = reloj

\* The incident the mapping in `resultado` is the summary of.
IncidenciaResumida ==
  IF llamada.op = "obtener_informacion" THEN incidencias[llamada.indice] ELSE Ultima

\* The fixed table of the specification: category -> priority, hours.
TablaEsperada ==
  [HARDWARE |-> [prioridad |-> "ALTA", horas |-> 4],
   SOFTWARE |-> [prioridad |-> "MEDIA", horas |-> 2],
   RED |-> [prioridad |-> "CRITICA", horas |-> 3],
   SEGURIDAD |-> [prioridad |-> "CRITICA", horas |-> 6]]

\* The technician labels, category by category, in the language of the source:
\* Hardware Technician, Software Developer/Technician, Network Administrator,
\* Security Specialist.
EtiquetaEsperada ==
  [HARDWARE |-> "Técnico de Hardware",
   SOFTWARE |-> "Desarrollador/Técnico de Software",
   RED |-> "Administrador de Redes",
   SEGURIDAD |-> "Especialista en Seguridad"]

\* C1: whenever the manager's crear_incidencia has been called with one of the
\* four categories, whatever the title, description and user id and whatever
\* was called before, the mapping it returned carries the priority and the
\* estimated hours of the fixed table: Hardware (ALTA, 4), Software (MEDIA, 2),
\* Network (CRITICA, 3), Security (CRITICA, 6).
C1_PrioridadYHoras ==
  (llamada.op = "gestor.crear_incidencia" /\ llamada.objeto \in TipoIncidencia) =>
    /\ resultado.error = <<>>
    /\ Len(resultado.info) = 1
    /\ resultado.info[1].prioridad = value(TablaEsperada[llamada.objeto].prioridad)
    /\ resultado.info[1].tiempo_estimado = TablaEsperada[llamada.objeto].horas

\* C1 witness: a hardware incident created through the manager with an empty
\* title, after a security incident was created earlier.
C1_Witness ==
  /\ llamada.op = "gestor.crear_incidencia"
  /\ llamada.objeto = "HARDWARE"
  /\ llamada.titulo = ""
  /\ Len(incidencias) = 2
  /\ incidencias[1].tipo = "SEGURIDAD"
  /\ resultado.info # <<>>
  /\ resultado.info[1].prioridad = "alta"
  /\ resultado.info[1].tiempo_estimado = 4

\* C2: a call of the manager's crear_incidencia whose tipo is not a key of the
\* table raises ValueError (the unsupported-category error), returns no
\* mapping, constructs no incident and prints no line: the incidents and the
\* output are as they were before the call.
C2_TipoNoSoportado ==
  [][(PasoLlamada("gestor.crear_incidencia") /\ llamada'.objeto \notin ClavesRegistradas) =>
       /\ resultado'.error # <<>>
       /\ resultado'.error[1] = "ValueError"
       /\ resultado'.info = <<>>
       /\ resultado'.ref = 0
       /\ incidencias' = incidencias
       /\ salida' = salida]_vars

\* C2 witness: the call failed for a tipo that is no member, when an incident
\* and its three output lines already existed.
C2_Witness ==
  /\ llamada.op = "gestor.crear_incidencia"
  /\ llamada.objeto \in NoMiembros
  /\ resultado.error # <<>>
  /\ resultado.error[1] = "ValueError"
  /\ Len(incidencias) = 1
  /\ Len(salida) = 3

\* C3 as stated: no incident with an empty title or an empty description is
\* ever constructed, and a constructing call given an empty title or an empty
\* description raises InvalidInputError.
C3_Original ==
  /\ \A i \in 1..Len(incidencias) :
       incidencias[i].titulo # "" /\ incidencias[i].descripcion # ""
  /\ (LlamadaCreadora /\ (llamada.titulo = "" \/ llamada.descripcion = "")) =>
       (resultado.error # <<>> /\ resultado.error[1] = "InvalidInputError")

\* C3 amended: construction does not validate its fields.  A constructing call
\* given an empty title or an empty description raises nothing and constructs
\* the incident, which carries the title and the description as given.
C3_SinValidacion ==
  (LlamadaCreadora /\ (llamada.titulo = "" \/ llamada.descripcion = "")) =>
    /\ resultado.error = <<>>
    /\ Len(incidencias) >= 1
    /\ Ultima.titulo = llamada.titulo
    /\ Ultima.descripcion = llamada.descripcion

\* C3 witness: an incident constructed with an empty title and a non-empty
\* description.
C3_Witness ==
  /\ LlamadaCreadora
  /\ llamada.titulo = ""
  /\ llamada.descripcion # ""
  /\ Len(incidencias) >= 1
  /\ Ultima.titulo = ""
  /\ resultado.error = <<>>

\* C4: in every state, so after any calls that succeeded or failed,
\* obtener_tipos_disponibles gives the four tags hardware, software, red,
\* seguridad, each once, in registration order, and that is what every call
\* of it returned.
C4_TiposDisponibles ==
  /\ obtener_tipos_disponibles(factories) = <<"hardware", "software", "red", "seguridad">>
  /\ llamada.op = "obtener_tipos_disponibles" =>
       resultado.tipos = <<"hardware", "software", "red", "seguridad">>

\* C4 witness: the list was returned after two incidents were created, one of
\* them through procesar_incidencia.
C4_Witness ==
  /\ llamada.op = "obtener_tipos_disponibles"
  /\ Len(resultado.tipos) = 4
  /\ Len(incidencias) = 2
  /\ Len(salida) = 3

\* C5: every incident that exists has estado ABIERTA, and every summary
\* returned shows "abierta".
C5_SiempreAbierta ==
  /\ \A i \in 1..Len(incidencias) : incidencias[i].estado = "ABIERTA"
  /\ resultado.info # <<>> => resultado.info[1].estado = "abierta"

\* C5 witness: two incidents exist, one was processed, and a summary has just
\* been read.
C5_Witness ==
  /\ Len(incidencias) = 2
  /\ Len(salida) = 3
  /\ llamada.op = "obtener_informacion"
  /\ resultado.info # <<>>
  /\ resultado.info[1].estado = "abierta"

\* C6: the technician label of every incident is the fixed label of its
\* category, whatever its title, description and user id, and the
\* tecnico_especializado entry of every summary returned is that label.
C6_TecnicoFijo ==
  /\ \A i \in 1..Len(incidencias) :
       obtener_tecnico_especializado(incidencias[i]) =
         EtiquetaEsperada[incidencias[i].tipo]
  /\ resultado.info # <<>> =>
       resultado.info[1].tecnico_especializado =
         EtiquetaEsperada[IncidenciaResumida.tipo]

\* C6 witness: the summary of a network incident was read while a second
\* network incident with another title exists.
C6_Witness ==
  /\ Len(incidencias) = 2
  /\ incidencias[1].tipo = "RED"
  /\ incidencias[2].tipo = "RED"
  /\ incidencias[1].titulo # incidencias[2].titulo
  /\ llamada.op = "obtener_informacion"
  /\ llamada.indice = 1
  /\ resultado.info[1].tecnico_especializado = "Administrador de Redes"

\* creado_en does not decrease along the incidents in construction order.
CreadoEnNoDecreciente ==
  \A i, j \in 1..Len(incidencias) :
    i < j => incidencias[i].creado_en <= incidencias[j].creado_en

\* C7 as stated: for any two incidents, the one constructed first has a
\* creado_en less than or equal to that of the one constructed second.
C7_Original == CreadoEnNoDecreciente

\* C7 amended: creado_en is the reading of the system clock at construction and
\* never changes afterwards; the values are non-decreasing in construction
\* order as long as the system clock has not been set back.
C7_RelojLeidoUnaVez ==
  [][/\ Len(incidencias') >= Len(incidencias)
     /\ \A i \in 1..Len(incidencias) :
          incidencias'[i].creado_en = incidencias[i].creado_en
     /\ Len(incidencias') > Len(incidencias) =>
          incidencias'[Len(incidencias')].creado_en = reloj
     /\ ~reloj_retrocedio' => CreadoEnNoDecreciente']_vars

\* C7 witness: two incidents constructed at different clock readings, the
\* clock never set back.
C7_Witness ==
  /\ Len(incidencias) = 2
  /\ ~reloj_retrocedio
  /\ incidencias[1].creado_en < incidencias[2].creado_en

\* C8: a call of obtener_informacion changes no incident, no output and no
\* table, and a call on the incident whose summary was read first returns the
\* mapping that first call returned, whatever happened in between.
C8_InformacionIdempotente ==
  [][PasoLlamada("obtener_informacion") =>
       /\ incidencias' = incidencias
       /\ salida' = salida
       /\ factories' = factories
       /\ Len(resultado'.info) = 1
       /\ primera_vista'.indice # 0
       /\ primera_vista'.indice = llamada'.indice =>
            resultado'.info = primera_vista'.info]_vars

\* C8 witness: the summary of the first incident has been read at least twice,
\* a second incident constructed at another clock reading exists, and the
\* clock has moved to another second than the first incident's.
C8_Witness ==
  /\ Len(incidencias) = 2
  /\ llamada.op = "obtener_informacion"
  /\ llamada.indice = 1
  /\ primera_vista.indice = 1
  /\ primera_vista.veces = 2
  /\ strftime(reloj) # strftime(incidencias[1].creado_en)
  /\ incidencias[2].creado_en # incidencias[1].creado_en

\* This step runs procesar_incidencia: called on a creator, or through the
\* manager for a registered tipo.
PasoProcesar ==
  \/ PasoLlamada("procesar_incidencia")
  \/ PasoLlamada("gestor.crear_incidencia") /\ llamada'.objeto \in ClavesRegistradas

\* C9: each run of procesar_incidencia constructs exactly one incident, whose
\* title, description and user id are the arguments, appends exactly three
\* lines (title, technician, hours, in that order) to the output, and returns
\* the summary of that incident.
C9_ProcesarUnaVez ==
  [][PasoProcesar =>
       LET n == Len(incidencias)
           nueva == incidencias'[n + 1]
       IN /\ Len(incidencias') = n + 1
          /\ SubSeq(incidencias', 1, n) = incidencias
          /\ nueva.titulo = llamada'.titulo
          /\ nueva.descripcion = llamada'.descripcion
          /\ nueva.usuario_id = llamada'.usuario_id
          /\ salida' =
               salida \o
                 << <<"Procesando incidencia: ", llamada'.titulo>>,
                    <<"Asignando a: ", EtiquetaEsperada[nueva.tipo]>>,
                    <<"Tiempo estimado: ", ToString(TablaEsperada[nueva.tipo].horas),
                      " horas">> >>
          /\ resultado'.error = <<>>
          /\ resultado'.info = <<obtener_informacion(nueva)>>
          /\ resultado'.info[1].titulo = llamada'.titulo
          /\ resultado'.info[1].descripcion = llamada'.descripcion]_vars

\* C9 witness: procesar_incidencia has run twice; six lines are in the output.
C9_Witness ==
  /\ llamada.op = "procesar_incidencia"
  /\ Len(incidencias) = 2
  /\ Len(salida) = 6
  /\ resultado.info = <<obtener_informacion(Ultima)>>

\* C10: in every state the manager's table is the table built at construction:
\* its keys are exactly the four categories, each once, it maps different
\* categories to different creators, the creator under category c constructs
\* only incidents of category c, and every incident the manager created for c
\* has category c.
C10_TablaDeFabricas ==
  /\ factories = GestorIncidencias_init
  /\ Len(factories) = Cardinality(TipoIncidencia)
  /\ ClavesRegistradas = TipoIncidencia
  /\ \A i, j \in 1..Len(factories) :
       i # j => factories[i][1] # factories[j][1] /\ factories[i][2] # factories[j][2]
  /\ \A i \in 1..Len(factories) :
       \A a \in Argumentos :
         Creador_crear_incidencia(factories[i][2], a[1], a[2], a[3], reloj).tipo =
           factories[i][1]
  /\ (llamada.op = "gestor.crear_incidencia" /\ llamada.objeto \in TipoIncidencia) =>
       (Len(incidencias) >= 1 /\ Ultima.tipo = llamada.objeto)

\* C10 witness: the manager created a network incident after another
\* incident had been created.
C10_Witness ==
  /\ llamada.op = "gestor.crear_incidencia"
  /\ llamada.objeto = "RED"
  /\ Len(incidencias) = 2
  /\ Ultima.tipo = "RED"
  /\ factories = GestorIncidencias_init

====
